---------------------------- MODULE Spec2Model ----------------------------
(***************************************************************************)
(* Frame synchronisation front end of p25.rs (src/baseband/sync.rs):       *)
(* the sync detector state machine, the fingerprint correlator, the        *)
(* symbol-instant averages and the threshold synthesis.                    *)
(*                                                                         *)
(* Numbers.  The code computes in f32.  Powers and samples are modelled as *)
(* integers (the detector only compares them), and every quotient is an    *)
(* exact rational <<numerator, denominator>> in lowest terms with a        *)
(* positive denominator.  Rounding of f32 is not modelled; NaN and the     *)
(* infinities are outside the modelled input domain.                       *)
(***************************************************************************)
EXTENDS Integers, Sequences, FiniteSets, TLC

VARIABLES
    mode,       \* which component the behaviour drives
    prev,       \* SyncDetector.prev : Option<f32>
    calls,      \* log of the detect calls made so far
    correlator, \* SyncCorrelator: its FIR filter (ring buffer and cursor)
    stream,     \* the sample stream being fed: its kind and lead-in
    fed,        \* log of the samples fed so far
    raws,       \* log of the values FIRFilter::feed returned
    fout,       \* what the last SyncCorrelator::feed returned, None before
    samples,    \* the window handed to calc_averages
    averages,   \* what calc_averages returned, None before the call
    pavg,       \* first argument of calc_thresholds
    navg,       \* second argument of calc_thresholds
    thresholds, \* what calc_thresholds returned, None before the call
    estimator,  \* SymbolThresholds: its two moving averages
    tcalls,     \* log of the thresholds calls made so far
    channels,   \* two instance sets, one per radio channel
    chlog,      \* per channel, the log of the calls made on its instances
    header,     \* VoiceHeaderDecoder: the 15-byte buffer it wraps
    hcalls      \* log of the accessor calls made on the header

vars == <<mode, prev, calls, correlator, stream, fed, raws, fout,
          samples, averages, pavg, navg, thresholds,
          estimator, tcalls,
          channels, chlog,
          header, hcalls>>

detectorVars == <<prev, calls>>

correlatorVars == <<correlator, stream, fed, raws, fout>>

averagesVars == <<samples, averages>>

thresholdsVars == <<pavg, navg, thresholds>>

estimatorVars == <<estimator, tcalls>>

channelVars == <<channels, chlog>>

headerVars == <<header, hcalls>>

(***************************************************************************)
(* Exact rationals standing for f32 quotients.                             *)
(***************************************************************************)
Abs(x) == IF x < 0 THEN -x ELSE x

RECURSIVE Gcd(_, _)
Gcd(a, b) == IF b = 0 THEN a ELSE Gcd(b, a % b)

\* n / d in lowest terms, d # 0.
Rat(n, d) ==
    LET g == Gcd(Abs(n), Abs(d))
        s == IF d < 0 THEN -1 ELSE 1
    IN <<(s * n) \div g, (s * d) \div g>>

RAdd(a, b) == Rat(a[1] * b[2] + b[1] * a[2], a[2] * b[2])

RSub(a, b) == Rat(a[1] * b[2] - b[1] * a[2], a[2] * b[2])

RMul(a, b) == Rat(a[1] * b[1], a[2] * b[2])

RDiv(a, b) == Rat(a[1] * b[2], a[2] * b[1])

RNeg(a) == <<-a[1], a[2]>>

(***************************************************************************)
(* Option<f32>                                                             *)
(***************************************************************************)
None == <<>>

Some(p) == <<p>>

(***************************************************************************)
(* SyncDetector                                                            *)
(***************************************************************************)

\* Bounds of the detector's driver.
MaxCalls == 5

MaxPow == 3

Powers == 0..MaxPow

Thresholds == {1, 3}

\* SyncDetector::new
SyncDetectorNew == None

\* A slip of detect: the Idle branch compares with >= instead of >.
detectGe(self, corrpow, thresh) ==
    IF self # None
    THEN IF corrpow < self[1]
         THEN [prev |-> self, ret |-> TRUE]
         ELSE [prev |-> Some(corrpow), ret |-> FALSE]
    ELSE IF corrpow >= thresh
         THEN [prev |-> Some(corrpow), ret |-> FALSE]
         ELSE [prev |-> self, ret |-> FALSE]

\* A slip of detect: the Tracking branch keeps the old peak instead of
\* following the power, and consults the threshold again.
detectHold(self, corrpow, thresh) ==
    IF self # None
    THEN IF corrpow < self[1]
         THEN [prev |-> self, ret |-> TRUE]
         ELSE [prev |-> IF corrpow > thresh THEN Some(corrpow) ELSE self,
               ret |-> FALSE]
    ELSE IF corrpow > thresh
         THEN [prev |-> Some(corrpow), ret |-> FALSE]
         ELSE [prev |-> self, ret |-> FALSE]

\* SyncDetector::detect(&mut self, corrpow, thresh) -> bool.
\* The result is the detector's field after the call and the value returned.
\* The `return true` arm leaves self.prev as it was.
detect(self, corrpow, thresh) ==
    IF self # None
    THEN IF corrpow < self[1]
         THEN [prev |-> self, ret |-> TRUE]
         ELSE [prev |-> Some(corrpow), ret |-> FALSE]
    ELSE IF corrpow > thresh
         THEN [prev |-> Some(corrpow), ret |-> FALSE]
         ELSE [prev |-> self, ret |-> FALSE]

(***************************************************************************)
(* SyncCorrelator                                                          *)
(***************************************************************************)
FINGERPRINT_SAMPS == 231

\* Coefficients of the frame sync fingerprint, SyncFingerprint[1] being the
\* impulse instant of the first symbol.
SyncFingerprintCoefs ==
    << 1,
       1,  1,  1,  1,  1,  1,  1,  1,  1,  1,
       1,  1,  1,  1,  1,  1,  1,  1,  1,  1,
       1,  1,  1,  1,  1,  1,  1,  1,  1,  1,
       1,  1,  1,  1,  1,  1,  1,  1,  1,  1,
       1,  1,  1,  1,  0, -1, -1, -1, -1, -1,
      -1, -1, -1, -1,  0,  1,  1,  1,  1,  1,
       1,  1,  1,  1,  1,  1,  1,  1,  1,  1,
       1,  1,  1,  1,  0, -1, -1, -1, -1, -1,
      -1, -1, -1, -1, -1, -1, -1, -1, -1, -1,
      -1, -1, -1, -1,  0,  1,  1,  1,  1,  1,
       1,  1,  1,  1,  1,  1,  1,  1,  1,  1,
       1,  1,  1,  1,  0, -1, -1, -1, -1, -1,
      -1, -1, -1, -1, -1, -1, -1, -1, -1, -1,
      -1, -1, -1, -1, -1, -1, -1, -1, -1, -1,
      -1, -1, -1, -1, -1, -1, -1, -1, -1, -1,
      -1, -1, -1, -1,  0,  1,  1,  1,  1,  1,
       1,  1,  1,  1,  0, -1, -1, -1, -1, -1,
      -1, -1, -1, -1,  0,  1,  1,  1,  1,  1,
       1,  1,  1,  1,  0, -1, -1, -1, -1, -1,
      -1, -1, -1, -1, -1, -1, -1, -1, -1, -1,
      -1, -1, -1, -1, -1, -1, -1, -1, -1, -1,
      -1, -1, -1, -1, -1, -1, -1, -1, -1, -1,
      -1, -1, -1, -1, -1, -1, -1, -1, -1, -1>>

\* A slip in the table: the coefficient of the sixth symbol instant (index 50
\* of the source's array), a -1.0, typed as 1.0.
SyncFingerprintTypo == [SyncFingerprintCoefs EXCEPT ![51] = 1]

\* impl_fir!(SyncFingerprint, f32, FINGERPRINT_SAMPS, [...])
SyncFingerprint == SyncFingerprintCoefs

\* Bounds of the correlator's driver: zeros fed before a test stream, freely
\* chosen samples at the head of a free stream, samples fed past the last
\* position a stream is observed at.
MaxLead == 1

MaxFree == 2

MaxTail == 2

RECURSIVE DotRange(_, _, _, _, _, _)
\* Sum of c[coff + k] * h[hoff + k] for k in lo..hi.  The code folds from left
\* to right; the sum is split in halves here, which is the same number.
DotRange(c, coff, h, hoff, lo, hi) ==
    IF lo > hi THEN 0
    ELSE IF lo = hi THEN c[coff + lo] * h[hoff + lo]
    ELSE LET mid == (lo + hi) \div 2
         IN DotRange(c, coff, h, hoff, lo, mid)
                + DotRange(c, coff, h, hoff, mid + 1, hi)

DotFrom(c, coff, h, hoff, n) == DotRange(c, coff, h, hoff, 1, n)

RECURSIVE SumSqRange(_, _, _)
\* Sum of h[k]^2 for k in lo..hi.
SumSqRange(h, lo, hi) ==
    IF lo > hi THEN 0
    ELSE IF lo = hi THEN h[lo] * h[lo]
    ELSE LET mid == (lo + hi) \div 2
         IN SumSqRange(h, lo, mid) + SumSqRange(h, mid + 1, hi)

\* Sum of h[k]^2 for k in 1..n: the fold of sig_power.
SumSqTo(h, n) == SumSqRange(h, 1, n)

\* FIRFilter::<SyncFingerprint>::new: a zeroed ring buffer, cursor at slot 0.
FIRFilterNew == [history |-> [i \in 1..FINGERPRINT_SAMPS |-> 0], idx |-> 0]

\* FIRFilter::history_unordered: the ring buffer in storage order.
FIRFilterHistoryUnordered(f) == f.history

\* FIRFilter::history: the slots from the cursor to the end, then the slots
\* before the cursor: oldest sample first.
FIRFilterHistory(f) ==
    SubSeq(f.history, f.idx + 1, FINGERPRINT_SAMPS) \o SubSeq(f.history, 1, f.idx)

\* FIRFilter::calc: the coefficients split at size - idx, the ring buffer at
\* idx; the first coefficients meet the slots from the cursor on, the rest
\* meet the slots before the cursor.
FIRFilterCalc(f) ==
    DotFrom(SyncFingerprint, 0, f.history, f.idx, FINGERPRINT_SAMPS - f.idx)
        + DotFrom(SyncFingerprint, FINGERPRINT_SAMPS - f.idx, f.history, 0, f.idx)

\* FIRFilter::feed: store the sample in the cursor's slot, advance the cursor
\* with wrap-around, and return the inner product with the coefficients.
FIRFilterFeed(f, sample) ==
    LET g == [history |-> [f.history EXCEPT ![f.idx + 1] = sample],
              idx |-> (f.idx + 1) % FINGERPRINT_SAMPS]
    IN [filter |-> g, out |-> FIRFilterCalc(g)]

\* SyncCorrelator::new
SyncCorrelatorNew == [corr |-> FIRFilterNew]

\* A slip of sig_power: the sum of squares is not divided by the window size.
sigPowerSum(self) ==
    Rat(SumSqTo(FIRFilterHistoryUnordered(self.corr), FINGERPRINT_SAMPS), 1)

\* SyncCorrelator::sig_power
sig_power(self) ==
    Rat(SumSqTo(FIRFilterHistoryUnordered(self.corr), FINGERPRINT_SAMPS),
        FINGERPRINT_SAMPS)

\* A slip of feed: the signal power is taken before the sample is admitted.
feedStalePower(self, sample) ==
    LET r == FIRFilterFeed(self.corr, sample)
    IN [self |-> [corr |-> r.filter],
        raw |-> r.out,
        ret |-> <<Rat(r.out, FINGERPRINT_SAMPS), sig_power(self)>>]

\* SyncCorrelator::feed(&mut self, sample) -> (f32, f32).  The tuple is
\* evaluated left to right: the filter is fed first, sig_power reads the
\* buffer that already holds the sample.  raw is the filter's own return.
feed(self, sample) ==
    LET r == FIRFilterFeed(self.corr, sample)
        after == [corr |-> r.filter]
    IN [self |-> after,
        raw |-> r.out,
        ret |-> <<Rat(r.out, FINGERPRINT_SAMPS), sig_power(after)>>]

\* A slip of history: the ring buffer is copied in storage order.
historyUnordered(self) ==
    LET it == FIRFilterHistoryUnordered(self.corr)
    IN [i \in 1..FINGERPRINT_SAMPS |-> it[i]]

\* SyncCorrelator::history: the filter's ordered history copied into a
\* FINGERPRINT_SAMPS array.
history(self) ==
    LET it == FIRFilterHistory(self.corr)
    IN [i \in 1..FINGERPRINT_SAMPS |-> it[i]]

(***************************************************************************)
(* calc_averages and calc_thresholds                                       *)
(***************************************************************************)

\* Indexes of symbol instants for symbol 01.
POS == <<0, 10, 20, 30, 50, 60, 90, 100, 150, 170>>

\* A slip of NEG: the last index lies past the samples calc_averages is given.
NEGPastWindow == <<40, 70, 80, 110, 120, 130, 140, 160, 180, 190, 200, 210, 230>>

\* Indexes of symbol instants for symbol 11.
NEG == <<40, 70, 80, 110, 120, 130, 140, 160, 180, 190, 200, 210, 220>>

RECURSIVE FoldIdx(_, _, _)
\* idxs[1..n].iter().fold(0.0, |s, &idx| s + smp[idx]), smp indexed from 0.
FoldIdx(smp, idxs, n) ==
    IF n = 0 THEN 0 ELSE FoldIdx(smp, idxs, n - 1) + smp[idxs[n] + 1]

\* A slip of calc_averages: the first fingerprint symbol is not skipped.
calcAveragesNoSkip(smp) ==
    <<Rat(FoldIdx(smp, POS, Len(POS)), Len(POS)),
      Rat(FoldIdx(smp, NEG, Len(NEG)), Len(NEG))>>

\* calc_averages(samples) -> (pavg, navg).  &samples[9..] is the window
\* without its first 9 samples.
calc_averages(smp) ==
    LET rest == SubSeq(smp, 10, FINGERPRINT_SAMPS)
    IN <<Rat(FoldIdx(rest, POS, Len(POS)), Len(POS)),
         Rat(FoldIdx(rest, NEG, Len(NEG)), Len(NEG))>>

\* A slip of calc_thresholds: the triple is returned lowest first.
calcThresholdsLowerFirst(p, n) ==
    LET mthresh == RDiv(RAdd(p, n), <<2, 1>>)
        pthresh == RAdd(mthresh, RMul(RSub(p, mthresh), RDiv(<<2, 1>>, <<3, 1>>)))
        nthresh == RAdd(mthresh, RMul(RSub(n, mthresh), RDiv(<<2, 1>>, <<3, 1>>)))
    IN <<nthresh, mthresh, pthresh>>

\* A slip of calc_thresholds: the midpoint taken as half the difference.
calcThresholdsHalfDifference(p, n) ==
    LET mthresh == RDiv(RSub(p, n), <<2, 1>>)
        pthresh == RAdd(mthresh, RMul(RSub(p, mthresh), RDiv(<<2, 1>>, <<3, 1>>)))
        nthresh == RAdd(mthresh, RMul(RSub(n, mthresh), RDiv(<<2, 1>>, <<3, 1>>)))
    IN <<pthresh, mthresh, nthresh>>

\* calc_thresholds(pavg, navg) -> (pthresh, mthresh, nthresh)
calc_thresholds(p, n) ==
    LET mthresh == RDiv(RAdd(p, n), <<2, 1>>)
        pthresh == RAdd(mthresh, RMul(RSub(p, mthresh), RDiv(<<2, 1>>, <<3, 1>>)))
        nthresh == RAdd(mthresh, RMul(RSub(n, mthresh), RDiv(<<2, 1>>, <<3, 1>>)))
    IN <<pthresh, mthresh, nthresh>>

(***************************************************************************)
(* SymbolThresholds                                                        *)
(***************************************************************************)
SMOOTH_AVG == 4

RECURSIVE RSum(_, _)
\* Sum of the rationals h[1..n].
RSum(h, n) == IF n = 0 THEN <<0, 1>> ELSE RAdd(RSum(h, n - 1), h[n])

\* MovingAverage::new(size): no value retained yet.
MovingAverageNew(size) == [size |-> size, hist |-> <<>>]

\* MovingAverage::feed(x): retain x, dropping the oldest value once size
\* values are held, and return the mean of the values retained.
MovingAverageFeed(ma, x) ==
    LET kept == IF Len(ma.hist) >= ma.size THEN Tail(ma.hist) ELSE ma.hist
        hist == Append(kept, x)
    IN [avg |-> [ma EXCEPT !.hist = hist],
        out |-> RDiv(RSum(hist, Len(hist)), <<Len(hist), 1>>)]

\* A slip of new: the averages smooth over one sync sequence too many.
SymbolThresholdsNewWide ==
    [psmooth |-> MovingAverageNew(SMOOTH_AVG + 1),
     nsmooth |-> MovingAverageNew(SMOOTH_AVG + 1)]

\* SymbolThresholds::new
SymbolThresholdsNew ==
    [psmooth |-> MovingAverageNew(SMOOTH_AVG),
     nsmooth |-> MovingAverageNew(SMOOTH_AVG)]

\* A slip of thresholds: the two averages are fed crosswise.
SymbolThresholds_thresholdsCrossed(self, sync) ==
    LET raw == calc_averages(sync)
        p == MovingAverageFeed(self.psmooth, raw[2])
        n == MovingAverageFeed(self.nsmooth, raw[1])
    IN [self |-> [psmooth |-> p.avg, nsmooth |-> n.avg],
        raw |-> raw,
        smooth |-> <<p.out, n.out>>,
        ret |-> calc_thresholds(p.out, n.out)]

\* SymbolThresholds::thresholds(&mut self, sync) -> (f32, f32, f32).
\* raw is the pair calc_averages gave, smooth the pair the moving averages
\* gave; ret is what the method returns.
SymbolThresholds_thresholds(self, sync) ==
    LET raw == calc_averages(sync)
        p == MovingAverageFeed(self.psmooth, raw[1])
        n == MovingAverageFeed(self.nsmooth, raw[2])
    IN [self |-> [psmooth |-> p.avg, nsmooth |-> n.avg],
        raw |-> raw,
        smooth |-> <<p.out, n.out>>,
        ret |-> calc_thresholds(p.out, n.out)]

EstimatorUnused ==
    /\ estimator = SymbolThresholdsNew
    /\ tcalls = <<>>

(***************************************************************************)
(* sync_threshold.  The powers feed returns are multiples of                *)
(* 1/FINGERPRINT_SAMPS; the detector is handed their integer numerators,    *)
(* so that detect compares integers.                                        *)
(***************************************************************************)
\* The numerator of the power q over the denominator FINGERPRINT_SAMPS.
InUnits(q) == (q[1] * FINGERPRINT_SAMPS) \div q[2]

RECURSIVE ISqrtIn(_, _, _)
\* The largest r in lo..hi with r * r <= n.
ISqrtIn(n, lo, hi) ==
    IF lo = hi
    THEN lo
    ELSE LET m == (lo + hi + 1) \div 2
         IN IF m * m <= n THEN ISqrtIn(n, m, hi) ELSE ISqrtIn(n, lo, m - 1)

\* The integer part of the square root of n.
ISqrt(n) == ISqrtIn(n, 0, IF n < 46340 THEN n ELSE 46340)

\* sync_threshold(sigpower) = sigpower.sqrt() * 0.65, in the detector's units:
\* with sigpower = S / 231 the value is sqrt(0.4225 * 231 * S) / 231, and
\* 0.4225 = 169 / 400.  The result is rounded down to an integer numerator; an
\* integer exceeds the exact value exactly when it exceeds its integer part.
sync_threshold(sigpower) ==
    ISqrt((169 * FINGERPRINT_SAMPS * InUnits(sigpower)) \div 400)

DetectorUnused ==
    /\ prev = SyncDetectorNew
    /\ calls = <<>>

CorrelatorUnused ==
    /\ correlator = SyncCorrelatorNew
    /\ stream = [kind |-> "free", lead |-> 0]
    /\ fed = <<>>
    /\ raws = <<>>
    /\ fout = None

\* Two radio channels, each with a correlator, a detector and an estimator
\* of its own.
Channels == {1, 2}

\* The instances of one channel as their constructors leave them.
NewInstances ==
    [correlator |-> SyncCorrelatorNew,
     detector |-> SyncDetectorNew,
     estimator |-> SymbolThresholdsNew]

ChannelsUnused ==
    /\ channels = [c \in Channels |-> NewInstances]
    /\ chlog = [c \in Channels |-> <<>>]

(***************************************************************************)
(* VoiceHeaderDecoder (voice/header.rs).  self[1] is the field self.0, the *)
(* 15 bytes; byte i of the code is element i + 1 here.                     *)
(***************************************************************************)
\* trunking::decode::slice_u16: the first two bytes of the slice as a
\* big-endian u16; bytes after them are not read.
slice_u16(s) == s[1] * 256 + s[2]

\* CryptoAlgorithm::Unencrypted, by its algorithm id (0b10000000).
Unencrypted == 128

\* The algorithm ids voice::crypto::CryptoAlgorithm knows.
CryptoAlgorithmBits == {0, 1, 2, 3, 4, 65, Unencrypted, 129, 131, 132}

\* voice::crypto::CryptoAlgorithm::from_bits(bits: u8) -> Option<..>: the
\* algorithm of that id, None for an id that names no algorithm.
CryptoAlgorithmFromBits(bits) ==
    IF bits \in CryptoAlgorithmBits THEN Some(bits) ELSE None

\* trunking::decode::TalkGroup::from_bits(bits: u16): 0xFFFF is Everbody.
TalkGroupFromBits(bits) ==
    IF bits = 65535 THEN <<"Everbody", bits>> ELSE <<"Other", bits>>

\* VoiceHeaderDecoder::new(buf)
VoiceHeaderDecoderNew(buf) == <<buf>>

\* crypto_init(&self) -> &[u8] { &self.0[..9] }
crypto_init(self) == SubSeq(self[1], 1, 9)

\* mfg(&self) -> u8 { self.0[9] }
mfg(self) == self[1][10]

\* crypto_alg(&self): CryptoAlgorithm::from_bits(self.0[10])
crypto_alg(self) == CryptoAlgorithmFromBits(self[1][11])

\* A slip of crypto_key: the slice starts one byte late.
cryptoKeyLate(self) == slice_u16(SubSeq(self[1], 13, 15))

\* crypto_key(&self) -> u16 { slice_u16(&self.0[11..]) }
crypto_key(self) == slice_u16(SubSeq(self[1], 12, 15))

\* talk_group(&self): TalkGroup::from_bits(slice_u16(&self.0[13..]))
talk_group(self) == TalkGroupFromBits(slice_u16(SubSeq(self[1], 14, 15)))

\* The buffer of test_header.
TestHeader == <<1, 2, 3, 4, 5, 6, 7, 8, 9, 0, 128, 0, 0, 255, 255>>

HeaderUnused ==
    /\ header = VoiceHeaderDecoderNew(TestHeader)
    /\ hcalls = <<>>

AveragesUnused ==
    /\ samples = <<>>
    /\ averages = None

ThresholdsUnused ==
    /\ pavg = <<0, 1>>
    /\ navg = <<0, 1>>
    /\ thresholds = None

\* Bounds of the windows handed to calc_averages: the amplitude of the symbol
\* instants, and of the values handed to calc_thresholds: their numerators.
MaxAmp == 2

MaxNum == 18

Fillers == {0, 42}

Deltas == {0, -3, 5}

\* True when the 0-based offset j (counted after the skipped 9 samples) is in
\* the index table idxs.
InTable(idxs, j) == \E k \in 1..Len(idxs) : idxs[k] = j

\* A window as test_calc_averages builds it: amp at the instants of symbol 01,
\* -amp at those of symbol 11, filler everywhere else; then delta is added to
\* the sample at position at.
TestWindow(amp, filler, at, delta) ==
    [i \in 1..FINGERPRINT_SAMPS |->
        (IF i >= 10 /\ InTable(POS, i - 10) THEN amp
         ELSE IF i >= 10 /\ InTable(NEG, i - 10) THEN -amp
         ELSE filler)
        + (IF i = at THEN delta ELSE 0)]

Denominators == {1, 100}

Levels == {Rat(n, d) : n \in (-MaxNum)..MaxNum, d \in Denominators}

\* The biased inputs of test_calc_thresholds: 0.15, -0.21, 0.042, -0.102.
TestLevels == {Rat(15, 100), Rat(-21, 100), Rat(42, 1000), Rat(-102, 1000)}

\* SYNC_GENERATOR: the frame sync word, 24 dibits in 6 bytes, first dibit in
\* the high bits of the first byte.
SYNC_GENERATOR == <<85, 117, 245, 255, 119, 255>>

(***************************************************************************)
(* The correlator driven alone.                                            *)
(***************************************************************************)
\* The samps array of test_corr_impulses: a unit impulse at each of the 24
\* symbol instants (every tenth sample), with these signs, zeros between them.
ImpulseSigns ==
    << 1,  1,  1,  1,  1, -1,  1,  1, -1, -1,  1,  1,
      -1, -1, -1, -1,  1, -1,  1, -1, -1, -1, -1, -1>>

Impulses ==
    [i \in 1..FINGERPRINT_SAMPS |->
        IF (i - 1) % 10 = 0 THEN ImpulseSigns[((i - 1) \div 10) + 1] ELSE 0]

FreeSamples == {-1, 2}

StreamKinds == {"selfcorr", "free"}

\* The samples that may be fed as the k-th sample of the stream st.
\* selfcorr: lead zeros, the fingerprint, a window of zeros, the impulses,
\* zeros.  free: MaxFree arbitrary samples, then a fixed pattern of period 13.
NextSamples(st, k) ==
    IF st.kind = "selfcorr"
    THEN LET j == k - st.lead
         IN IF j >= 1 /\ j <= FINGERPRINT_SAMPS
            THEN {SyncFingerprint[j]}
            ELSE IF j > 2 * FINGERPRINT_SAMPS /\ j <= 3 * FINGERPRINT_SAMPS
                 THEN {Impulses[j - 2 * FINGERPRINT_SAMPS]}
                 ELSE {0}
    ELSE IF k <= MaxFree THEN FreeSamples ELSE {((k * k) % 13) - 6}

\* The number of samples the driver feeds of the stream st.
StreamLength(st) ==
    IF st.kind = "selfcorr"
    THEN st.lead + 3 * FINGERPRINT_SAMPS + MaxTail
    ELSE 2 * FINGERPRINT_SAMPS + MaxTail

InitCorrelator ==
    /\ mode = "correlator"
    /\ prev = SyncDetectorNew
    /\ calls = <<>>
    /\ correlator = SyncCorrelatorNew
    /\ stream \in [kind : StreamKinds, lead : 0..MaxLead]
    /\ stream.kind = "free" => stream.lead = 0
    /\ fed = <<>>
    /\ raws = <<>>
    /\ fout = None
    /\ AveragesUnused
    /\ ThresholdsUnused
    /\ EstimatorUnused
    /\ ChannelsUnused
    /\ HeaderUnused

\* One call c.feed(sample).
Feed ==
    /\ mode = "correlator"
    /\ Len(fed) < StreamLength(stream)
    /\ \E sample \in NextSamples(stream, Len(fed) + 1) :
          LET r == feed(correlator, sample)
          IN /\ correlator' = r.self
             /\ fed' = Append(fed, sample)
             /\ raws' = Append(raws, r.raw)
             /\ fout' = r.ret
    /\ UNCHANGED <<mode, stream, detectorVars, averagesVars, thresholdsVars,
                 estimatorVars,
                 channelVars,
                 headerVars>>

NextCorrelator == Feed

SpecCorrelator == InitCorrelator /\ [][NextCorrelator]_vars



(***************************************************************************)
(* Properties of the correlator, read off the log of fed samples.          *)
(***************************************************************************)

\* The last FINGERPRINT_SAMPS samples fed, oldest first, with zeros standing
\* for the samples before the first one.
Window ==
    [i \in 1..FINGERPRINT_SAMPS |->
        LET k == Len(fed) - FINGERPRINT_SAMPS + i
        IN IF k >= 1 THEN fed[k] ELSE 0]

\* C6: after N >= 231 feeds, history() is exactly the last 231 fed samples,
\* oldest first, wherever the ring buffer's cursor stands (so each feed drops
\* the oldest sample and admits the new one).
C6_HistoryIsLast231 ==
    Len(fed) >= FINGERPRINT_SAMPS =>
        history(correlator) = SubSeq(fed, Len(fed) - FINGERPRINT_SAMPS + 1, Len(fed))

\* Reached: a free stream, 300 samples fed, the cursor in the middle of the
\* buffer, storage order differing from arrival order.
C6_Witness ==
    /\ stream.kind = "free"
    /\ Len(fed) = FINGERPRINT_SAMPS + 69
    /\ correlator.corr.idx = 69
    /\ history(correlator) = SubSeq(fed, 70, FINGERPRINT_SAMPS + 69)
    /\ history(correlator) # FIRFilterHistoryUnordered(correlator.corr)

\* C7: feed returns (c, s), c the inner product of the fingerprint with the
\* window that already holds the sample just fed (coefficient i with the i-th
\* oldest sample) divided by 231, s the sum of squares of that window divided
\* by 231, both as recomputed from the log of fed samples.
C7_FeedIsWindowCorrelation ==
    fout # None =>
        fout = <<Rat(DotFrom(SyncFingerprint, 0, Window, 0, FINGERPRINT_SAMPS),
                     FINGERPRINT_SAMPS),
                 Rat(SumSqTo(Window, FINGERPRINT_SAMPS), FINGERPRINT_SAMPS)>>

\* Reached: a free stream past the first wrap of the ring buffer, the new
\* sample's square differing from the evicted one's, a non-zero correlation.
C7_Witness ==
    /\ stream.kind = "free"
    /\ Len(fed) > FINGERPRINT_SAMPS + 1
    /\ correlator.corr.idx # 0
    /\ fed[Len(fed)] * fed[Len(fed)]
           # fed[Len(fed) - FINGERPRINT_SAMPS] * fed[Len(fed) - FINGERPRINT_SAMPS]
    /\ fout # None
    /\ fout[1][1] # 0
    /\ fout[2] = Rat(SumSqTo(Window, FINGERPRINT_SAMPS), FINGERPRINT_SAMPS)

\* C8: from an all-zero correlator, after the 231 fingerprint values have been
\* fed in order the raw correlation sum is the sum of squares of the
\* fingerprint, and after the unit impulses of the 24 symbol instants have
\* been fed it is 24.
C8_SelfCorrelationPeak ==
    stream.kind = "selfcorr" =>
        /\ Len(raws) >= stream.lead + FINGERPRINT_SAMPS =>
              raws[stream.lead + FINGERPRINT_SAMPS]
                  = SumSqTo(SyncFingerprint, FINGERPRINT_SAMPS)
        /\ Len(raws) >= stream.lead + 3 * FINGERPRINT_SAMPS =>
              raws[stream.lead + 3 * FINGERPRINT_SAMPS] = 24

\* Reached: both peaks seen in one run that started with a zero fed first,
\* the window having been all zero again before the impulses.
C8_Witness ==
    /\ stream.kind = "selfcorr"
    /\ stream.lead = 1
    /\ Len(raws) = stream.lead + 3 * FINGERPRINT_SAMPS
    /\ raws[stream.lead + FINGERPRINT_SAMPS] = 222
    /\ raws[stream.lead + 2 * FINGERPRINT_SAMPS] = 0
    /\ \A k \in 1..FINGERPRINT_SAMPS : fed[stream.lead + FINGERPRINT_SAMPS + k] = 0
    /\ raws[Len(raws)] = 24

InitDetector ==
    /\ mode = "detector"
    /\ prev = SyncDetectorNew
    /\ calls = <<>>
    /\ correlator = SyncCorrelatorNew
    /\ stream = [kind |-> "free", lead |-> 0]
    /\ fed = <<>>
    /\ raws = <<>>
    /\ fout = None
    /\ AveragesUnused
    /\ ThresholdsUnused
    /\ EstimatorUnused
    /\ ChannelsUnused
    /\ HeaderUnused

\* One call d.detect(corrpow, thresh).
Detect ==
    /\ mode = "detector"
    /\ Len(calls) < MaxCalls
    /\ \E corrpow \in Powers, thresh \in Thresholds :
          LET r == detect(prev, corrpow, thresh)
          IN /\ prev' = r.prev
             /\ calls' = Append(calls, [corrpow |-> corrpow, thresh |-> thresh,
                                        before |-> prev, after |-> r.prev,
                                        ret |-> r.ret])
    /\ UNCHANGED <<mode, correlatorVars, averagesVars, thresholdsVars,
                 estimatorVars,
                 channelVars,
                 headerVars>>

NextDetector == Detect

SpecDetector == InitDetector /\ [][NextDetector]_vars


(***************************************************************************)
(* Properties of the detector, read off the call log.                      *)
(***************************************************************************)
Calls == 1..Len(calls)

FixedThreshold == \A i, j \in Calls : calls[i].thresh = calls[j].thresh

\* The powers rise strictly up to call m and fall strictly after it.
Unimodal(m) ==
    /\ \A i \in Calls : i < m => calls[i].corrpow < calls[i + 1].corrpow
    /\ \A i \in Calls : (m <= i /\ i < Len(calls)) =>
                            calls[i].corrpow > calls[i + 1].corrpow

\* C1 (as claimed): for a fresh detector and a fixed threshold, on a strictly
\* increasing then strictly decreasing sequence of powers whose maximum
\* exceeds the threshold, detect returns true on the call right after the
\* maximum and false on every other call of the sequence, the later
\* decreasing ones included.
C1_MonotonicPeakOnce ==
    \A m \in Calls :
        (FixedThreshold /\ Unimodal(m) /\ calls[m].corrpow > calls[m].thresh)
            => \A i \in Calls : calls[i].ret = (i = m + 1)

\* C2 (as claimed): in Tracking(peak), a call with corrpow < peak returns true
\* and leaves the detector Idle (prev = None).
C2_FallReturnsTrueAndResets ==
    \A i \in Calls :
        (calls[i].before # None /\ calls[i].corrpow < calls[i].before[1])
            => (calls[i].ret = TRUE /\ calls[i].after = None)

\* The call that entered the excursion call i belongs to: the last call up
\* to i that found the detector Idle.
ExcursionStart(i) ==
    CHOOSE j \in 1..i :
        /\ calls[j].before = None
        /\ \A l \in (j + 1)..i : calls[l].before # None

\* C18 (as claimed): in every detector state Tracking(p), p is the power of
\* the most recent detect call and the excursion was entered by a sample
\* strictly above that call's threshold; the tracked value never decreases
\* during an excursion; and whenever detect returns true, the power of the
\* call before is the maximum of the excursion and strictly greater than the
\* current power.
C18_ExcursionInvariant ==
    /\ prev # None =>
          /\ calls # <<>>
          /\ prev[1] = calls[Len(calls)].corrpow
          /\ LET j == ExcursionStart(Len(calls))
             IN calls[j].corrpow > calls[j].thresh
    /\ \A i \in Calls :
          (calls[i].before # None /\ calls[i].after # None)
              => calls[i].after[1] >= calls[i].before[1]
    /\ \A i \in Calls :
          calls[i].ret =>
              /\ i > 1
              /\ calls[i - 1].corrpow > calls[i].corrpow
              /\ \A l \in ExcursionStart(i)..(i - 1) :
                    calls[l].corrpow <= calls[i - 1].corrpow

\* C3: a new detector is Idle; in Idle every call returns false, and the state
\* becomes Tracking(corrpow) exactly when corrpow > thresh, staying Idle
\* otherwise (also when corrpow = thresh).
C3_IdleLaw ==
    /\ calls = <<>> => prev = None
    /\ \A i \in Calls :
          calls[i].before = None =>
              /\ calls[i].ret = FALSE
              /\ (calls[i].after = Some(calls[i].corrpow))
                     <=> (calls[i].corrpow > calls[i].thresh)
              /\ calls[i].corrpow <= calls[i].thresh => calls[i].after = None
    /\ calls # <<>> => prev = calls[Len(calls)].after

\* Reached: an Idle call with corrpow = thresh that stays Idle, followed by an
\* Idle call with corrpow > thresh that starts tracking.
C3_Witness ==
    \E i \in Calls :
        /\ i < Len(calls)
        /\ calls[i].before = None /\ calls[i].corrpow = calls[i].thresh
        /\ calls[i].after = None
        /\ calls[i + 1].corrpow > calls[i + 1].thresh
        /\ calls[i + 1].after = Some(calls[i + 1].corrpow)

\* C4: in Tracking(peak), a call with corrpow >= peak returns false and the
\* state becomes Tracking(corrpow), whatever the threshold of the call.
C4_TrackingFollows ==
    \A i \in Calls :
        (calls[i].before # None /\ calls[i].corrpow >= calls[i].before[1])
            => (calls[i].ret = FALSE /\ calls[i].after = Some(calls[i].corrpow))

\* Reached: a flat call (corrpow = peak) made while tracking with a threshold
\* above the power, followed by a rising call.
C4_Witness ==
    \E i \in Calls :
        /\ i < Len(calls)
        /\ calls[i].before # None
        /\ calls[i].corrpow = calls[i].before[1]
        /\ calls[i].corrpow < calls[i].thresh
        /\ calls[i].ret = FALSE
        /\ calls[i + 1].corrpow > calls[i].corrpow
        /\ calls[i + 1].after = Some(calls[i + 1].corrpow)

AllNotAbove == \A i \in Calls : calls[i].corrpow <= calls[i].thresh

\* C5: from a fresh detector, when no call's power is greater than the
\* threshold of that call, every call returns false and the detector is Idle
\* after each of them.
C5_IdleBelowThreshold ==
    AllNotAbove =>
        /\ prev = None
        /\ \A i \in Calls : calls[i].ret = FALSE /\ calls[i].after = None

\* Reached: a full-length run of such calls, with both thresholds used and a
\* power equal to its threshold among them.
C5_Witness ==
    /\ Len(calls) = MaxCalls
    /\ AllNotAbove
    /\ \E i, j \in Calls : calls[i].thresh # calls[j].thresh
    /\ \E i \in Calls : calls[i].corrpow = calls[i].thresh
    /\ prev = None

(***************************************************************************)
(* calc_averages applied to test windows.                                  *)
(***************************************************************************)
InitAverages ==
    /\ mode = "averages"
    /\ prev = SyncDetectorNew
    /\ calls = <<>>
    /\ correlator = SyncCorrelatorNew
    /\ stream = [kind |-> "free", lead |-> 0]
    /\ fed = <<>>
    /\ raws = <<>>
    /\ fout = None
    /\ \E amp \in 1..MaxAmp, filler \in Fillers,
          at \in 1..FINGERPRINT_SAMPS, delta \in Deltas :
          samples = TestWindow(amp, filler, at, delta)
    /\ averages = None
    /\ ThresholdsUnused
    /\ EstimatorUnused
    /\ ChannelsUnused
    /\ HeaderUnused

\* One call calc_averages(&samples).
CalcAverages ==
    /\ mode = "averages"
    /\ averages = None
    /\ averages' = calc_averages(samples)
    /\ UNCHANGED <<mode, samples, detectorVars, correlatorVars, thresholdsVars,
                 estimatorVars,
                 channelVars,
                 headerVars>>

NextAverages == CalcAverages

SpecAverages == InitAverages /\ [][NextAverages]_vars

\* The symbol instants calc_averages reads, as positions of the window
\* counted from 1: 9 + index + 1.
PosInstants == {10, 20, 30, 40, 60, 70, 100, 110, 160, 180}

NegInstants == {50, 80, 90, 120, 130, 140, 150, 170, 190, 200, 210, 220, 230}

\* The window with every sample that is not at a symbol instant set to zero.
OnlyInstants(smp) ==
    [i \in 1..FINGERPRINT_SAMPS |->
        IF i \in PosInstants \cup NegInstants THEN smp[i] ELSE 0]

\* C9: calc_averages returns the mean of the 10 samples at window indices
\* 9 + POS and the mean of the 13 samples at window indices 9 + NEG; the other
\* 208 samples have no effect, and a window with +1 at every positive
\* position and -1 at every negative one gives (1, -1).
C9_AveragesReadSymbolInstants ==
    averages # None =>
        /\ averages[1] =
              Rat(samples[10] + samples[20] + samples[30] + samples[40]
                  + samples[60] + samples[70] + samples[100] + samples[110]
                  + samples[160] + samples[180], 10)
        /\ averages[2] =
              Rat(samples[50] + samples[80] + samples[90] + samples[120]
                  + samples[130] + samples[140] + samples[150] + samples[170]
                  + samples[190] + samples[200] + samples[210] + samples[220]
                  + samples[230], 13)
        /\ averages = calc_averages(OnlyInstants(samples))
        /\ ((\A i \in PosInstants : samples[i] = 1)
                /\ (\A i \in NegInstants : samples[i] = -1))
               => averages = <<<<1, 1>>, <<-1, 1>>>>

\* Reached: the window of test_calc_averages (1 and -1 at the instants, 42
\* elsewhere) with one of its first 9 samples changed, giving (1, -1).
C9_Witness ==
    /\ mode = "averages"
    /\ \A i \in PosInstants : samples[i] = 1
    /\ \A i \in NegInstants : samples[i] = -1
    /\ samples[231] = 42
    /\ \E i \in 1..9 : samples[i] = 47
    /\ averages = <<<<1, 1>>, <<-1, 1>>>>

(***************************************************************************)
(* calc_thresholds applied to pairs of levels.                             *)
(***************************************************************************)
InitThresholds ==
    /\ mode = "thresholds"
    /\ prev = SyncDetectorNew
    /\ calls = <<>>
    /\ correlator = SyncCorrelatorNew
    /\ stream = [kind |-> "free", lead |-> 0]
    /\ fed = <<>>
    /\ raws = <<>>
    /\ fout = None
    /\ AveragesUnused
    /\ pavg \in Levels \cup TestLevels
    /\ navg \in Levels \cup TestLevels
    /\ thresholds = None
    /\ EstimatorUnused
    /\ ChannelsUnused
    /\ HeaderUnused

\* One call calc_thresholds(pavg, navg).
CalcThresholds ==
    /\ mode = "thresholds"
    /\ thresholds = None
    /\ thresholds' = calc_thresholds(pavg, navg)
    /\ UNCHANGED <<mode, pavg, navg, detectorVars, correlatorVars, averagesVars,
                 estimatorVars,
                 channelVars,
                 headerVars>>

NextThresholds == CalcThresholds

SpecThresholds == InitThresholds /\ [][NextThresholds]_vars

\* C10: for every p > 0, calc_thresholds(p, -p) returns (upper, mid, lower)
\* with mid = 0 and upper = -lower = p * 2/3.
C10_ThresholdSymmetry ==
    (thresholds # None /\ pavg[1] > 0 /\ navg = RNeg(pavg)) =>
        /\ thresholds[2] = <<0, 1>>
        /\ thresholds[1] = RNeg(thresholds[3])
        /\ thresholds[1] = Rat(pavg[1] * 2, pavg[2] * 3)

\* Reached: the first case of test_calc_thresholds, (0.18, -0.18), which
\* gives (0.12, 0, -0.12).
C10_Witness ==
    /\ pavg = <<9, 50>>
    /\ navg = <<-9, 50>>
    /\ thresholds = <<<<3, 25>>, <<0, 1>>, <<-3, 25>>>>

\* C11: for every pair (pavg, navg), calc_thresholds returns (upper, mid,
\* lower) with mid = (pavg + navg)/2, upper = mid + (pavg - mid)*2/3 and
\* lower = mid + (navg - mid)*2/3; (0.15, -0.21) gives (0.09, -0.03, -0.15)
\* and (0.042, -0.102) gives (0.018, -0.030, -0.078).
C11_ThresholdSynthesis ==
    thresholds # None =>
        LET upper == thresholds[1]
            mid == thresholds[2]
            lower == thresholds[3]
        IN /\ mid = Rat(pavg[1] * navg[2] + navg[1] * pavg[2],
                        2 * pavg[2] * navg[2])
           /\ RMul(<<3, 1>>, RSub(upper, mid)) = RMul(<<2, 1>>, RSub(pavg, mid))
           /\ RMul(<<3, 1>>, RSub(lower, mid)) = RMul(<<2, 1>>, RSub(navg, mid))
           /\ (pavg = <<3, 20>> /\ navg = <<-21, 100>>)
                  => thresholds = <<<<9, 100>>, <<-3, 100>>, <<-3, 20>>>>
           /\ (pavg = <<21, 500>> /\ navg = <<-51, 500>>)
                  => thresholds = <<<<9, 500>>, <<-3, 100>>, <<-39, 500>>>>

\* Reached: the last case of test_calc_thresholds, scaling and DC bias.
C11_Witness ==
    /\ pavg = <<21, 500>>
    /\ navg = <<-51, 500>>
    /\ thresholds = <<<<9, 500>>, <<-3, 100>>, <<-39, 500>>>>

\* a <= b and a < b for rationals in lowest terms (denominators positive).
RLe(a, b) == a[1] * b[2] <= b[1] * a[2]

RLt(a, b) == a[1] * b[2] < b[1] * a[2]

\* C21: for every pair with pavg >= navg, calc_thresholds returns
\* lower <= mid <= upper with upper - mid = mid - lower = (pavg - navg)/3,
\* navg <= lower and upper <= pavg; every inequality is strict when
\* pavg > navg.
C21_ThresholdOrdering ==
    (thresholds # None /\ RLe(navg, pavg)) =>
        LET upper == thresholds[1]
            mid == thresholds[2]
            lower == thresholds[3]
            third == RDiv(RSub(pavg, navg), <<3, 1>>)
        IN /\ RLe(lower, mid)
           /\ RLe(mid, upper)
           /\ RSub(upper, mid) = third
           /\ RSub(mid, lower) = third
           /\ RLe(navg, lower)
           /\ RLe(upper, pavg)
           /\ RLt(navg, pavg) =>
                 /\ RLt(navg, lower)
                 /\ RLt(lower, mid)
                 /\ RLt(mid, upper)
                 /\ RLt(upper, pavg)

\* Reached: two positive levels, 0.17 and 0.05, far from symmetric; the
\* thresholds 0.15, 0.11, 0.07 lie strictly between them, 0.04 apart.
C21_Witness ==
    /\ pavg = <<17, 100>>
    /\ navg = <<1, 20>>
    /\ thresholds = <<<<3, 20>>, <<11, 100>>, <<7, 100>>>>

(***************************************************************************)
(* SymbolThresholds driven alone: one thresholds call per sync sequence.   *)
(***************************************************************************)
MaxSyncs == 6

\* The sync windows handed to thresholds.  Their raw averages are
\* (1, -1), (5/2, -2) and (1, -16/13).
EstimatorWindows ==
    <<TestWindow(1, 42, 1, 0), TestWindow(2, 42, 10, 5), TestWindow(1, 0, 50, -3)>>

InitEstimator ==
    /\ mode = "estimator"
    /\ DetectorUnused
    /\ CorrelatorUnused
    /\ AveragesUnused
    /\ ThresholdsUnused
    /\ estimator = SymbolThresholdsNew
    /\ tcalls = <<>>
    /\ ChannelsUnused
    /\ HeaderUnused

\* One call estimator.thresholds(&sync).
EstimateThresholds ==
    /\ mode = "estimator"
    /\ Len(tcalls) < MaxSyncs
    /\ \E w \in DOMAIN EstimatorWindows :
          LET r == SymbolThresholds_thresholds(estimator, EstimatorWindows[w])
          IN /\ estimator' = r.self
             /\ tcalls' = Append(tcalls, [sync |-> w, raw |-> r.raw,
                                          smooth |-> r.smooth, ret |-> r.ret])
    /\ UNCHANGED <<mode, detectorVars, correlatorVars, averagesVars,
                   thresholdsVars,
                 channelVars,
                 headerVars>>

NextEstimator == EstimateThresholds

SpecEstimator == InitEstimator /\ [][NextEstimator]_vars

\* The raw pair of call i, computed from the window the call was given.
RawOf(i) == calc_averages(EstimatorWindows[tcalls[i].sync])

\* Calls i-3 .. i were all given windows with the same raw pair.
FourAlike(i) == i >= 4 /\ \A j \in (i - 3)..i : RawOf(j) = RawOf(i)

\* C12: from any estimator state, once four consecutive thresholds calls have
\* been given windows with the same raw pair (pavg, navg), the smoothed pair
\* of the fourth and of every later such call is (pavg, navg), and the call
\* returns calc_thresholds(pavg, navg).
C12_SmoothingConvergence ==
    \A i \in 1..Len(tcalls) :
        FourAlike(i) =>
            /\ tcalls[i].smooth = RawOf(i)
            /\ tcalls[i].ret = calc_thresholds(RawOf(i)[1], RawOf(i)[2])

C12_Witness ==
    /\ Len(tcalls) = 6
    /\ RawOf(1) # RawOf(2)
    /\ FourAlike(6)
    /\ FourAlike(5)
    /\ tcalls[5].ret = tcalls[6].ret
    /\ tcalls[6].ret = calc_thresholds(<<5, 2>>, <<-2, 1>>)

RECURSIVE RawSum(_, _, _)
\* Sum of component c (1: pavg, 2: navg) of the raw pairs of calls lo..hi.
RawSum(c, lo, hi) ==
    IF lo > hi THEN <<0, 1>> ELSE RAdd(RawSum(c, lo, hi - 1), RawOf(hi)[c])

\* Arithmetic mean of component c of the raw pairs of the last min(i, 4)
\* calls up to and including call i.
MeanOfLast(c, i) ==
    LET k == IF i < 4 THEN i ELSE 4
    IN RDiv(RawSum(c, i - k + 1, i), <<k, 1>>)

\* Component c of the raw pairs of the last min(n, 4) calls, oldest first.
LastRaws(c) ==
    LET n == Len(tcalls)
        k == IF n < 4 THEN n ELSE 4
    IN [j \in 1..k |-> RawOf(n - k + j)[c]]

\* C16: every thresholds call feeds the window's pavg to the positive
\* accumulator and its navg to the negative one, one value each, and returns
\* calc_thresholds(P, N) with P, N the means of the last min(n, 4) pavg and
\* navg values, the current call included; older values have no effect.
C16_ThresholdsFeedsBothAverages ==
    /\ estimator.psmooth.hist = LastRaws(1)
    /\ estimator.nsmooth.hist = LastRaws(2)
    /\ \A i \in 1..Len(tcalls) :
          tcalls[i].ret = calc_thresholds(MeanOfLast(1, i), MeanOfLast(2, i))

C16_Witness ==
    /\ Len(tcalls) = 6
    /\ [i \in 1..6 |-> tcalls[i].sync] = <<2, 1, 3, 1, 3, 3>>
    /\ estimator.psmooth.hist = <<<<1, 1>>, <<1, 1>>, <<1, 1>>, <<1, 1>>>>
    /\ estimator.nsmooth.hist = <<<<-16, 13>>, <<-1, 1>>, <<-16, 13>>, <<-16, 13>>>>
    /\ tcalls[6].ret = calc_thresholds(<<1, 1>>, <<-61, 52>>)
    /\ tcalls[2].ret = calc_thresholds(<<7, 4>>, <<-3, 2>>)

(***************************************************************************)
(* The receive path: every sample is fed to the correlator, the detector   *)
(* is asked about the powers it returned, and on a detection the estimator *)
(* is handed the correlator's history.                                     *)
(***************************************************************************)
MaxQuiet == 3

ReceiverKinds == {"burst", "silence"}

\* The k-th sample of the stream st.  burst: lead zeros, the 231 fingerprint
\* values, zeros.  silence: zeros.
ReceiverSample(st, k) ==
    LET j == k - st.lead
    IN IF st.kind = "burst" /\ j >= 1 /\ j <= FINGERPRINT_SAMPS
       THEN SyncFingerprint[j]
       ELSE 0

\* The number of samples received of the stream st: after a burst the zeros
\* go on until the window holds nothing else, and MaxQuiet samples longer.
ReceiverLength(st) ==
    IF st.kind = "burst"
    THEN st.lead + 2 * FINGERPRINT_SAMPS + MaxQuiet
    ELSE FINGERPRINT_SAMPS + MaxQuiet

InitReceiver ==
    /\ mode = "receiver"
    /\ prev = SyncDetectorNew
    /\ calls = <<>>
    /\ correlator = SyncCorrelatorNew
    /\ stream \in [kind : ReceiverKinds, lead : 0..MaxLead]
    /\ stream.kind = "silence" => stream.lead = 0
    /\ fed = <<>>
    /\ raws = <<>>
    /\ fout = None
    /\ AveragesUnused
    /\ ThresholdsUnused
    /\ EstimatorUnused
    /\ ChannelsUnused
    /\ HeaderUnused

\* One sample: feed, detect on the powers with sync_threshold of the signal
\* power, and thresholds on the history when detect returned true.
Receive ==
    /\ mode = "receiver"
    /\ Len(fed) < ReceiverLength(stream)
    /\ LET k == Len(fed) + 1
           sample == ReceiverSample(stream, k)
           f == feed(correlator, sample)
           corrpow == InUnits(f.ret[1])
           thresh == sync_threshold(f.ret[2])
           d == detect(prev, corrpow, thresh)
           t == SymbolThresholds_thresholds(estimator, history(f.self))
       IN /\ correlator' = f.self
          /\ fed' = Append(fed, sample)
          /\ raws' = Append(raws, f.raw)
          /\ fout' = f.ret
          /\ prev' = d.prev
          /\ calls' = Append(calls, [corrpow |-> corrpow, thresh |-> thresh,
                                     before |-> prev, after |-> d.prev,
                                     ret |-> d.ret])
          /\ IF d.ret
             THEN /\ estimator' = t.self
                  /\ tcalls' = Append(tcalls, [at |-> k, raw |-> t.raw,
                                               smooth |-> t.smooth, ret |-> t.ret])
             ELSE UNCHANGED estimatorVars
    /\ UNCHANGED <<mode, stream, averagesVars, thresholdsVars,
                 channelVars,
                 headerVars>>

NextReceiver == Receive

SpecReceiver == InitReceiver /\ [][NextReceiver]_vars

\* The sample numbers at which detect returned true.
Detections == {k \in 1..Len(calls) : calls[k].ret}

\* C13: on a stream of zeros, the 231 fingerprint values, then zeros, detect
\* returns true on exactly one sample of the whole stream: the one fed
\* immediately after the last fingerprint sample.
C13_SingleDetectionPulse ==
    stream.kind = "burst" =>
        /\ Detections \subseteq {stream.lead + FINGERPRINT_SAMPS + 1}
        /\ Len(fed) > stream.lead + FINGERPRINT_SAMPS
               => Detections = {stream.lead + FINGERPRINT_SAMPS + 1}

\* The fingerprint as the window holds it one sample after full alignment:
\* shifted by one towards the old end, the newest sample a zero.
ShiftedFingerprint ==
    [i \in 1..FINGERPRINT_SAMPS |->
        IF i < FINGERPRINT_SAMPS THEN SyncFingerprint[i + 1] ELSE 0]

\* The sync symbol (1..24) whose instant calc_averages reads through table
\* index idx when the window is the fingerprint shifted by one sample.
SymbolRead(idx) == (idx \div 10) + 2

Indexes(table) == {table[i] : i \in DOMAIN table}

\* C17: at the call where detect fires, one sample after full alignment, the
\* window is the fingerprint shifted by one sample, and calc_averages applied
\* to history() reads exactly the instants of sync symbols 2..24: the +1
\* symbols through POS, the -1 symbols through NEG, so that it yields (1, -1).
C17_DetectionAlignment ==
    (stream.kind = "burst" /\ Len(fed) = stream.lead + FINGERPRINT_SAMPS + 1) =>
        LET h == history(correlator)
        IN /\ calls[Len(fed)].ret
           /\ h = ShiftedFingerprint
           /\ \A idx \in Indexes(POS) :
                 /\ h[9 + idx + 1] = SyncFingerprint[10 * (SymbolRead(idx) - 1) + 1]
                 /\ ImpulseSigns[SymbolRead(idx)] = 1
                 /\ h[9 + idx + 1] = 1
           /\ \A idx \in Indexes(NEG) :
                 /\ h[9 + idx + 1] = SyncFingerprint[10 * (SymbolRead(idx) - 1) + 1]
                 /\ ImpulseSigns[SymbolRead(idx)] = -1
                 /\ h[9 + idx + 1] = -1
           /\ {SymbolRead(idx) : idx \in Indexes(POS) \cup Indexes(NEG)} = 2..24
           /\ calc_averages(h) = <<<<1, 1>>, <<-1, 1>>>>
           /\ tcalls[1].raw = <<<<1, 1>>, <<-1, 1>>>>

C17_Witness ==
    /\ stream = [kind |-> "burst", lead |-> 1]
    /\ Len(fed) = 233
    /\ Detections = {233}
    /\ history(correlator) = ShiftedFingerprint
    /\ Len(tcalls) = 1
    /\ tcalls[1].at = 233
    /\ tcalls[1].ret = calc_thresholds(<<1, 1>>, <<-1, 1>>)

\* Every sample the correlator window holds is zero.
QuietWindow == \A i \in 1..FINGERPRINT_SAMPS : history(correlator)[i] = 0

Pow4(n) == IF n = 0 THEN 1 ELSE IF n = 1 THEN 4 ELSE IF n = 2 THEN 16 ELSE 64

\* The k-th dibit (k in 0..23) of SYNC_GENERATOR, as a number in 0..3.
Dibit(k) == (SYNC_GENERATOR[(k \div 4) + 1] \div Pow4(3 - (k % 4))) % 4

\* The nominal level of a dibit: 01 is +1, 11 is -1; nothing else occurs in
\* the sync word.
DibitLevel(k) == IF Dibit(k) = 1 THEN 1 ELSE IF Dibit(k) = 3 THEN -1 ELSE 0

\* C14: the fingerprint has 231 coefficients, all in {-1, 0, 1}; for k in
\* 0..23 the coefficient at index 10k is +1 where dibit k of SYNC_GENERATOR is
\* 01 and -1 where it is 11; for k in 1..23 index 10(k-1) is in POS exactly
\* when that coefficient is +1 and in NEG exactly when it is -1; POS and NEG
\* are disjoint and hold the 23 positions between them.  The samples of a
\* received burst at the symbol instants are these levels.
C14_TablesAgreeWithSyncWord ==
    /\ DOMAIN SyncFingerprint = 1..231
    /\ \A i \in DOMAIN SyncFingerprint : SyncFingerprint[i] \in {-1, 0, 1}
    /\ \A k \in 0..23 :
          /\ Dibit(k) \in {1, 3}
          /\ SyncFingerprint[10 * k + 1] = DibitLevel(k)
    /\ \A k \in 1..23 :
          /\ 10 * (k - 1) \in Indexes(POS) <=> SyncFingerprint[10 * k + 1] = 1
          /\ 10 * (k - 1) \in Indexes(NEG) <=> SyncFingerprint[10 * k + 1] = -1
    /\ Indexes(POS) \cap Indexes(NEG) = {}
    /\ Indexes(POS) \cup Indexes(NEG) = {10 * (k - 1) : k \in 1..23}
    /\ Len(POS) + Len(NEG) = 23
    /\ stream.kind = "burst" =>
          \A k \in 0..23 :
              stream.lead + 10 * k + 1 <= Len(fed)
                  => fed[stream.lead + 10 * k + 1] = DibitLevel(k)

C14_Witness ==
    /\ stream = [kind |-> "burst", lead |-> 1]
    /\ Len(fed) = 232
    /\ Dibit(4) = 1
    /\ fed[42] = 1
    /\ Dibit(5) = 3
    /\ fed[52] = -1
    /\ 40 \in Indexes(NEG)
    /\ 30 \in Indexes(POS)

\* C15: every operation is total.  Every index calc_averages reads (at most
\* 9 + 220 = 229) lies inside the 231-sample window; in every reachable state
\* the ring buffer hands history() exactly 231 samples, so that its copy into
\* the 231-element array succeeds; and feed, history, detect and thresholds
\* return values of their result types whatever was fed before.
C15_OperationsAreTotal ==
    /\ \A idx \in Indexes(POS) \cup Indexes(NEG) : 9 + idx <= 229
    /\ Len(FIRFilterHistory(correlator.corr)) = 231
    /\ DOMAIN history(correlator) = 1..231
    /\ correlator.corr.idx \in 0..230
    /\ \A sample \in {-1, 2} :
          LET f == feed(correlator, sample)
              d == detect(prev, InUnits(f.ret[1]), sync_threshold(f.ret[2]))
              t == SymbolThresholds_thresholds(estimator, history(f.self))
          IN /\ Len(f.ret) = 2
             /\ f.ret[2][1] >= 0
             /\ DOMAIN history(f.self) = 1..231
             /\ d.ret \in BOOLEAN
             /\ d.prev = None \/ Len(d.prev) = 1
             /\ Len(t.ret) = 3
             /\ Len(t.self.psmooth.hist) \in 1..4
             /\ Len(t.self.nsmooth.hist) \in 1..4

C15_Witness ==
    /\ stream = [kind |-> "burst", lead |-> 1]
    /\ Len(fed) = 300
    /\ correlator.corr.idx = 69
    /\ Len(FIRFilterHistory(correlator.corr)) = 231
    /\ history(correlator)[163] = SyncFingerprint[231]
    /\ Len(tcalls) = 68
    /\ Len(estimator.psmooth.hist) = 4

(***************************************************************************)
(* Two channels, their calls interleaved in any order.                     *)
(***************************************************************************)
MaxOps == 3

ChannelSamples == {-1, 1}

ChannelPowers == {1, 2}

ChannelLevels == {1}

InitChannels ==
    /\ mode = "channels"
    /\ DetectorUnused
    /\ CorrelatorUnused
    /\ AveragesUnused
    /\ ThresholdsUnused
    /\ EstimatorUnused
    /\ channels = [c \in Channels |-> NewInstances]
    /\ chlog = [c \in Channels |-> <<>>]
    /\ HeaderUnused

\* The calls made so far on both channels together.
OpsMade == Len(chlog[1]) + Len(chlog[2])

\* channel c: correlator.feed(sample).
ChannelFeed(c) ==
    /\ mode = "channels"
    /\ OpsMade < MaxOps
    /\ \E sample \in ChannelSamples :
          LET r == feed(channels[c].correlator, sample)
          IN /\ channels' = [channels EXCEPT ![c].correlator = r.self]
             /\ chlog' = [chlog EXCEPT ![c] =
                   Append(@, [op |-> "feed", arg |-> <<sample>>, out |-> r.ret])]
    /\ UNCHANGED <<mode, detectorVars, correlatorVars, averagesVars,
                   thresholdsVars, estimatorVars,
                 headerVars>>

\* channel c: correlator.history().
ChannelHistory(c) ==
    /\ mode = "channels"
    /\ OpsMade < MaxOps
    /\ chlog' = [chlog EXCEPT ![c] =
          Append(@, [op |-> "history", arg |-> <<>>,
                     out |-> history(channels[c].correlator)])]
    /\ UNCHANGED <<mode, channels, detectorVars, correlatorVars, averagesVars,
                   thresholdsVars, estimatorVars,
                 headerVars>>

\* A slip of the detect call: one detector serves both channels.
ChannelDetectShared(c) ==
    /\ mode = "channels"
    /\ OpsMade < MaxOps
    /\ \E corrpow \in ChannelPowers, thresh \in ChannelLevels :
          LET r == detect(channels[1].detector, corrpow, thresh)
          IN /\ channels' = [channels EXCEPT ![1].detector = r.prev]
             /\ chlog' = [chlog EXCEPT ![c] =
                   Append(@, [op |-> "detect", arg |-> <<corrpow, thresh>>,
                              out |-> r.ret])]
    /\ UNCHANGED <<mode, detectorVars, correlatorVars, averagesVars,
                   thresholdsVars, estimatorVars,
                 headerVars>>

\* channel c: detector.detect(corrpow, thresh).
ChannelDetect(c) ==
    /\ mode = "channels"
    /\ OpsMade < MaxOps
    /\ \E corrpow \in ChannelPowers, thresh \in ChannelLevels :
          LET r == detect(channels[c].detector, corrpow, thresh)
          IN /\ channels' = [channels EXCEPT ![c].detector = r.prev]
             /\ chlog' = [chlog EXCEPT ![c] =
                   Append(@, [op |-> "detect", arg |-> <<corrpow, thresh>>,
                              out |-> r.ret])]
    /\ UNCHANGED <<mode, detectorVars, correlatorVars, averagesVars,
                   thresholdsVars, estimatorVars,
                 headerVars>>

\* channel c: estimator.thresholds(&correlator.history()).
ChannelThresholds(c) ==
    /\ mode = "channels"
    /\ OpsMade < MaxOps
    /\ LET r == SymbolThresholds_thresholds(channels[c].estimator,
                                            history(channels[c].correlator))
       IN /\ channels' = [channels EXCEPT ![c].estimator = r.self]
          /\ chlog' = [chlog EXCEPT ![c] =
                Append(@, [op |-> "thresholds", arg |-> <<>>, out |-> r.ret])]
    /\ UNCHANGED <<mode, detectorVars, correlatorVars, averagesVars,
                   thresholdsVars, estimatorVars,
                 headerVars>>

NextChannels ==
    \E c \in Channels :
        \/ ChannelFeed(c)
        \/ ChannelHistory(c)
        \/ ChannelDetect(c)
        \/ ChannelThresholds(c)

SpecChannels == InitChannels /\ [][NextChannels]_vars

\* One logged call made on the instances set, by itself: the instances after
\* the call and what the call returned.
Alone(set, call) ==
    IF call.op = "feed"
    THEN LET r == feed(set.correlator, call.arg[1])
         IN [set |-> [set EXCEPT !.correlator = r.self], out |-> r.ret]
    ELSE IF call.op = "detect"
    THEN LET r == detect(set.detector, call.arg[1], call.arg[2])
         IN [set |-> [set EXCEPT !.detector = r.prev], out |-> r.ret]
    ELSE IF call.op = "thresholds"
    THEN LET r == SymbolThresholds_thresholds(set.estimator, history(set.correlator))
         IN [set |-> [set EXCEPT !.estimator = r.self], out |-> r.ret]
    ELSE [set |-> set, out |-> history(set.correlator)]

RECURSIVE Replay(_, _)
\* The first n calls of log made on fresh instances and on nothing else:
\* the instances they leave and whether every result was the logged one.
Replay(log, n) ==
    IF n = 0
    THEN [set |-> NewInstances, same |-> TRUE]
    ELSE LET before == Replay(log, n - 1)
             r == Alone(before.set, log[n])
         IN [set |-> r.set, same |-> before.same /\ r.out = log[n].out]

\* C20: detect changes only the detector, feed only the correlator,
\* thresholds only the estimator's two accumulators, history() nothing; with
\* the calls on two instance sets interleaved, the results and the state of
\* each set are those of its own calls made alone on fresh instances.
C20_ChannelsIndependent ==
    \A c \in Channels :
        LET alone == Replay(chlog[c], Len(chlog[c]))
        IN /\ alone.same
           /\ channels[c] = alone.set
           /\ (\A i \in 1..Len(chlog[c]) : chlog[c][i].op # "feed")
                  => channels[c].correlator = SyncCorrelatorNew
           /\ (\A i \in 1..Len(chlog[c]) : chlog[c][i].op # "detect")
                  => channels[c].detector = SyncDetectorNew
           /\ (\A i \in 1..Len(chlog[c]) : chlog[c][i].op # "thresholds")
                  => channels[c].estimator = SymbolThresholdsNew

C20_Witness ==
    /\ Len(chlog[1]) = 2
    /\ Len(chlog[2]) = 1
    /\ chlog[1][1].op = "detect"
    /\ chlog[1][2].op = "detect"
    /\ chlog[1][2].arg = <<1, 1>>
    /\ chlog[1][2].out = TRUE
    /\ chlog[2][1].op = "feed"
    /\ channels[1].correlator = SyncCorrelatorNew
    /\ channels[1].detector = Some(2)
    /\ channels[2].detector = SyncDetectorNew
    /\ channels[2].correlator # SyncCorrelatorNew

(***************************************************************************)
(* The header decoder: a buffer wrapped once, its accessors called in any  *)
(* order.                                                                  *)
(***************************************************************************)
MaxReads == 2

ByteValues == {0, 128, 255}

InitVectors == {<<1, 2, 3, 4, 5, 6, 7, 8, 9>>, <<9, 8, 7, 6, 5, 4, 3, 2, 1>>}

HeaderBuffers ==
    {iv \o <<m, a, k1, k2, t1, t2>> :
        iv \in InitVectors, m \in ByteValues, a \in ByteValues,
        k1 \in ByteValues, k2 \in ByteValues, t1 \in ByteValues, t2 \in ByteValues}

InitHeader ==
    /\ mode = "header"
    /\ DetectorUnused
    /\ CorrelatorUnused
    /\ AveragesUnused
    /\ ThresholdsUnused
    /\ EstimatorUnused
    /\ ChannelsUnused
    /\ \E buf \in HeaderBuffers : header = VoiceHeaderDecoderNew(buf)
    /\ hcalls = <<>>

\* What every accessor call has in common: it takes &self, so the header
\* stays as it is; the call and its result are logged.
Read(op, out) ==
    /\ mode = "header"
    /\ Len(hcalls) < MaxReads
    /\ hcalls' = Append(hcalls, [op |-> op, out |-> out, self |-> header])
    /\ UNCHANGED <<mode, header, detectorVars, correlatorVars, averagesVars,
                   thresholdsVars, estimatorVars, channelVars>>

CryptoInit == Read("crypto_init", crypto_init(header))

Mfg == Read("mfg", mfg(header))

CryptoAlg == Read("crypto_alg", crypto_alg(header))

CryptoKey == Read("crypto_key", crypto_key(header))

TalkGroup == Read("talk_group", talk_group(header))

NextHeader == CryptoInit \/ Mfg \/ CryptoAlg \/ CryptoKey \/ TalkGroup

SpecHeader == InitHeader /\ [][NextHeader]_vars

\* The headers that differ from the buffer buf in at most one byte, which
\* is none of the bytes at the positions keep.
Elsewhere(buf, keep) ==
    {VoiceHeaderDecoderNew([buf EXCEPT ![j] = v]) :
        j \in (1..15) \ keep, v \in ByteValues \cup {7}}

Init ==
    \/ InitDetector
    \/ InitCorrelator
    \/ InitAverages
    \/ InitThresholds
    \/ InitEstimator
    \/ InitReceiver
    \/ InitChannels
    \/ InitHeader

Next ==
    \/ NextDetector
    \/ NextCorrelator
    \/ NextAverages
    \/ NextThresholds
    \/ NextEstimator
    \/ NextReceiver
    \/ NextChannels
    \/ NextHeader

Spec == Init /\ [][Next]_vars

=============================================================================
